---- MODULE Spec2Model ----
(***************************************************************************)
(* Model of ranking/RankNet.py: the train() driver of the pairwise RankNet *)
(* (construction, optional resume, epoch loop, periodic checkpoint + sync  *)
(* + evaluation, final checkpoint and snapshot), eval_model() and          *)
(* load_from_ckpt().                                                       *)
(*                                                                         *)
(* Parameters of a network are abstracted to their provenance: the random  *)
(* initialisation they started from and the optimizer steps applied since  *)
(* (one entry per step, holding the epoch index it was applied in).  Two   *)
(* parameter values are equal iff they have the same provenance.           *)
(***************************************************************************)
EXTENDS Integers, Sequences, FiniteSets, TLC

\* ---------------------------------------------------------------- bounds
MaxStartEpoch == 5
MaxAdditional == 6
MaxBatches == 2
MaxRows == 1

\* ------------------------------------------------------ program constants
SaveEvery == 5
LogEvery == 100
StepSize == 10

VARIABLES
    start_epoch, additional_epoch, optim,   \* arguments of train()
    batches,            \* what generate_query_pair_batch(df, ...) yields per epoch
    pc,                 \* position in train() / eval_model()
    error,              \* exception that ended train(), "none" otherwise
    net, net_mode,      \* RankNet: parameters and train/eval mode
    net_inference, inference_mode, \* RankNetInference
    optimizer, scheduler,
    files,              \* checkpoint files <ckptfile>_<epoch>, by epoch key
    final_file,         \* <ckptfile>: the final state-dict snapshot, <<>> if absent
    i,                  \* epoch index of the loop in train()
    gen,                \* rest of the running training batch generator
    lossed_minibatch, minibatch, losses,
    ev_yielded, ev_lossed, ev_minibatch,   \* locals of eval_model()
    metrics,            \* calls of eval_cross_entropy_loss / eval_ndcg_at_k
    log,                \* kinds of messages printed
    trace               \* history of the run's steps, in order

vars == <<start_epoch, additional_epoch, optim, batches, pc, error, net, net_mode,
          net_inference, inference_mode, optimizer, scheduler, files, final_file,
          i, gen, lossed_minibatch, minibatch, losses, ev_yielded, ev_lossed,
          ev_minibatch, metrics, log, trace>>

\* ------------------------------------------------------------ data model
Range(n) == IF n <= 0 THEN <<>> ELSE [k \in 1..n |-> k - 1]

FreshParams(who) == [origin |-> who, steps |-> <<>>]

NoneBatch == [present |-> FALSE, x_i |-> 0, x_j |-> 0]

\* A batch of pairs: both sides hold one row per pair.
PairBatch(n) == [present |-> TRUE, x_i |-> n, x_j |-> n]

BatchKinds == {NoneBatch} \cup {PairBatch(n) : n \in 0..MaxRows}

RECURSIVE SeqsUpTo(_, _)
SeqsUpTo(S, n) ==
    IF n = 0 THEN {<<>>}
    ELSE LET shorter == SeqsUpTo(S, n - 1)
         IN  shorter \cup {Append(s, b) : s \in {t \in shorter : Len(t) = n - 1}, b \in S}

Event(e, n) == [ev |-> e, n |-> n]

\* torch.optim.lr_scheduler.StepLR(optimizer, step_size=10, gamma=0.5): the
\* number of times the learning rate has been halved after last_epoch steps
LrHalvings(last_epoch) == last_epoch \div StepSize

\* What an earlier run started at epoch 0 (one non-empty batch per epoch, adam)
\* left under key E: the periodic checkpoint of epoch E is written after epoch E
\* has run (E + 1 epochs), the final one of a run of E epochs after E epochs.
PriorCheckpoint(E, periodic) ==
    LET done == IF periodic THEN E + 1 ELSE E
    IN  [epoch |-> E,
         model_state_dict |-> [origin |-> "prior_init", steps |-> Range(done)],
         optimizer_state_dict |-> [kind |-> "adam", nsteps |-> done,
                                   lr_halvings |-> LrHalvings(done)],
         scheduler_state_dict |-> [last_epoch |-> done]]

PriorFiles(start) ==
    {<<>>} \cup
    (IF start = 0 THEN {}
     ELSE {[k \in {start} |-> PriorCheckpoint(start, p)] :
              p \in IF start % SaveEvery = 0 THEN BOOLEAN ELSE {FALSE}})

\* -------------------------------------------------------- pure operators
\* faulty variant: the first epoch of the run is not excluded
C1MutShouldCheckpoint(e, start) == e % SaveEvery = 0

\* train(), line 151
ShouldCheckpoint(e, start) == e % SaveEvery = 0 /\ e # start

\* faulty variant: only an absent batch is skipped, a zero-row one is trained on
C5MutSkipBatch(b) == ~b.present

\* train(), line 126 / eval_model(), line 181: x_i is None or x_i.shape[0] == 0
SkipBatch(b) == ~b.present \/ b.x_i = 0

\* np.mean of a list of losses: nan on the empty list
NpMean(xs) == [nan |-> xs = <<>>, terms |-> xs, n |-> Len(xs)]

\* loss_func(model(x_i, x_j), y): the model object that ran the forward pass,
\* its parameters at that time, and the batch it ran on
PairLoss(who, params, b) == [by |-> who, params |-> params, rows |-> b.x_i]

\* optimizer.step(): one more update of the parameters, in epoch e
StepParams(params, e) == [params EXCEPT !.steps = Append(@, e)]

\* save_to_ckpt(ckptfile, epoch, net, optimizer, scheduler)
SaveToCkpt(fs, key, model, opt, sched) ==
    [k \in DOMAIN fs \cup {key} |->
        IF k = key
        THEN [epoch |-> key, model_state_dict |-> model,
              optimizer_state_dict |-> opt, scheduler_state_dict |-> sched]
        ELSE fs[k]]

\* net_inference.load_state_dict(net.state_dict()): a copy of the values
LoadStateDict(state_dict) == state_dict

\* ------------------------------------------------------------------ Init
Init ==
    /\ start_epoch \in 0..MaxStartEpoch
    /\ additional_epoch \in 0..MaxAdditional
    /\ optim \in {"adam", "sgd", "rmsprop"}
    /\ batches \in SeqsUpTo(BatchKinds, MaxBatches)
    /\ files \in PriorFiles(start_epoch)
    /\ final_file = <<>>
    /\ pc = "construct"
    /\ error = "none"
    /\ net = FreshParams("unbuilt")
    /\ net_mode = "train"
    /\ net_inference = FreshParams("unbuilt")
    /\ inference_mode = "train"
    /\ optimizer = [kind |-> "none", nsteps |-> 0, lr_halvings |-> 0]
    /\ scheduler = [last_epoch |-> -1]
    /\ i = 0
    /\ gen = <<>>
    /\ lossed_minibatch = <<>>
    /\ minibatch = 0
    /\ losses = <<>>
    /\ ev_yielded = 0
    /\ ev_lossed = <<>>
    /\ ev_minibatch = 0
    /\ metrics = <<>>
    /\ log = {}
    /\ trace = <<>>

\* --------------------------------------------------------------- actions
\* train(), lines 78-92: both networks are built, each with its own random
\* initialisation; the inference network is put in eval mode.
Construct ==
    /\ pc = "construct"
    /\ net' = FreshParams("net_init")
    /\ net_inference' = FreshParams("inference_init")
    /\ inference_mode' = "eval"
    /\ log' = log \cup {"start"}
    /\ pc' = "optimizer"
    /\ UNCHANGED <<start_epoch, additional_epoch, optim, batches, error, net_mode,
                   optimizer, scheduler, files, final_file, i, gen, lossed_minibatch,
                   minibatch, losses, ev_yielded, ev_lossed, ev_minibatch, metrics,
                   trace>>

\* train(), lines 94-105: optimizer, loss and StepLR scheduler
MakeOptimizer ==
    /\ pc = "optimizer"
    /\ optim \in {"adam", "sgd"}
    /\ optimizer' = [kind |-> optim, nsteps |-> 0, lr_halvings |-> LrHalvings(0)]
    /\ scheduler' = [last_epoch |-> 0]
    /\ pc' = "resume"
    /\ UNCHANGED <<start_epoch, additional_epoch, optim, batches, error, net, net_mode,
                   net_inference, inference_mode, files, final_file, i, gen,
                   lossed_minibatch, minibatch, losses, ev_yielded, ev_lossed,
                   ev_minibatch, metrics, log, trace>>

\* faulty variant: an unknown optimizer name is not rejected and the run goes on
C7MutRaiseUnsupportedOptimizer ==
    /\ pc = "optimizer"
    /\ optim \notin {"adam", "sgd"}
    /\ pc' = "resume"
    /\ UNCHANGED <<start_epoch, additional_epoch, optim, batches, error, net, net_mode,
                   net_inference, inference_mode, optimizer, scheduler, files,
                   final_file, i, gen, lossed_minibatch, minibatch, losses, ev_yielded,
                   ev_lossed, ev_minibatch, metrics, log, trace>>

\* train(), lines 98-99: raise ValueError
RaiseUnsupportedOptimizer ==
    /\ pc = "optimizer"
    /\ optim \notin {"adam", "sgd"}
    /\ error' = "ValueError"
    /\ pc' = "raised"
    /\ UNCHANGED <<start_epoch, additional_epoch, optim, batches, net, net_mode,
                   net_inference, inference_mode, optimizer, scheduler, files,
                   final_file, i, gen, lossed_minibatch, minibatch, losses, ev_yielded,
                   ev_lossed, ev_minibatch, metrics, log, trace>>

\* train(), lines 111-117: data is loaded and the loop starts at start_epoch
EnterLoop ==
    /\ losses' = <<>>
    /\ i' = start_epoch
    /\ pc' = "epoch"

\* train(), line 108: start_epoch = 0, nothing is loaded
NoResume ==
    /\ pc = "resume"
    /\ start_epoch = 0
    /\ EnterLoop
    /\ UNCHANGED <<start_epoch, additional_epoch, optim, batches, error, net, net_mode,
                   net_inference, inference_mode, optimizer, scheduler, files,
                   final_file, gen, lossed_minibatch, minibatch, ev_yielded, ev_lossed,
                   ev_minibatch, metrics, log, trace>>

\* load_from_ckpt(), lines 203-208: the file exists; only the entry
\* 'model_state_dict' of the checkpoint is read, into the training model
ResumeLoad ==
    /\ pc = "resume"
    /\ start_epoch # 0
    /\ start_epoch \in DOMAIN files
    /\ net' = LoadStateDict(files[start_epoch].model_state_dict)
    /\ log' = log \cup {"load from ckpt", "finish load from ckpt"}
    /\ trace' = Append(trace, Event("load", start_epoch))
    /\ EnterLoop
    /\ UNCHANGED <<start_epoch, additional_epoch, optim, batches, error, net_mode,
                   net_inference, inference_mode, optimizer, scheduler, files,
                   final_file, gen, lossed_minibatch, minibatch, ev_yielded, ev_lossed,
                   ev_minibatch, metrics>>

\* faulty variant: a missing checkpoint file is an error
C6MutResumeMissing ==
    /\ pc = "resume"
    /\ start_epoch # 0
    /\ start_epoch \notin DOMAIN files
    /\ error' = "FileNotFoundError"
    /\ pc' = "raised"
    /\ UNCHANGED <<start_epoch, additional_epoch, optim, batches, net, net_mode,
                   net_inference, inference_mode, optimizer, scheduler, files,
                   final_file, i, gen, lossed_minibatch, minibatch, losses, ev_yielded,
                   ev_lossed, ev_minibatch, metrics, log, trace>>

\* load_from_ckpt(), lines 209-210: the file is missing; a message is printed
ResumeMissing ==
    /\ pc = "resume"
    /\ start_epoch # 0
    /\ start_epoch \notin DOMAIN files
    /\ log' = log \cup {"ckpt file does not exist"}
    /\ EnterLoop
    /\ UNCHANGED <<start_epoch, additional_epoch, optim, batches, error, net, net_mode,
                   net_inference, inference_mode, optimizer, scheduler, files,
                   final_file, gen, lossed_minibatch, minibatch, ev_yielded, ev_lossed,
                   ev_minibatch, metrics, trace>>

\* faulty variant: the loop runs one epoch too many
C9MutInRange(e) == e <= start_epoch + additional_epoch

\* train(), line 117: range(start_epoch, start_epoch + additional_epoch)
InRange(e) == e < start_epoch + additional_epoch

\* train(), lines 117-125: scheduler.step(), net.train(), the accumulators are
\* reset and the batch generator is started anew
EpochBegin ==
    /\ pc = "epoch"
    /\ InRange(i)
    /\ scheduler' = [last_epoch |-> scheduler.last_epoch + 1]
    /\ optimizer' = [optimizer EXCEPT !.lr_halvings = LrHalvings(scheduler'.last_epoch)]
    /\ net_mode' = "train"
    /\ lossed_minibatch' = <<>>
    /\ minibatch' = 0
    /\ gen' = batches
    /\ trace' = Append(trace, Event("epoch", i))
    /\ pc' = "batch"
    /\ UNCHANGED <<start_epoch, additional_epoch, optim, batches, error, net,
                   net_inference, inference_mode, files, final_file, i, losses,
                   ev_yielded, ev_lossed, ev_minibatch, metrics, log>>

\* train(), lines 126-127: continue
SkipEmptyBatch ==
    /\ pc = "batch"
    /\ gen # <<>>
    /\ SkipBatch(Head(gen))
    /\ gen' = Tail(gen)
    /\ UNCHANGED <<start_epoch, additional_epoch, optim, batches, pc, error, net,
                   net_mode, net_inference, inference_mode, optimizer, scheduler, files,
                   final_file, i, lossed_minibatch, minibatch, losses, ev_yielded,
                   ev_lossed, ev_minibatch, metrics, log, trace>>

\* faulty variant: the sync made the inference model an alias of the training model,
\* so an optimizer step moves both
C8MutTrainBatch ==
    /\ pc = "batch"
    /\ gen # <<>>
    /\ ~SkipBatch(Head(gen))
    /\ gen' = Tail(gen)
    /\ lossed_minibatch' = Append(lossed_minibatch, PairLoss("net", net, Head(gen)))
    /\ net' = StepParams(net, i)
    /\ net_inference' = IF net_inference = net THEN net' ELSE net_inference
    /\ optimizer' = [optimizer EXCEPT !.nsteps = @ + 1]
    /\ minibatch' = minibatch + 1
    /\ log' = IF minibatch' % LogEvery = 0 THEN log \cup {"minibatch loss"} ELSE log
    /\ trace' = Append(trace, Event("step", i))
    /\ UNCHANGED <<start_epoch, additional_epoch, optim, batches, pc, error, net_mode,
                   inference_mode, scheduler, files, final_file, i, losses, ev_yielded,
                   ev_lossed, ev_minibatch, metrics>>

\* train(), lines 128-144: forward pass, loss, backward, optimizer step
TrainBatch ==
    /\ pc = "batch"
    /\ gen # <<>>
    /\ ~SkipBatch(Head(gen))
    /\ gen' = Tail(gen)
    /\ lossed_minibatch' = Append(lossed_minibatch, PairLoss("net", net, Head(gen)))
    /\ net' = StepParams(net, i)
    /\ optimizer' = [optimizer EXCEPT !.nsteps = @ + 1]
    /\ minibatch' = minibatch + 1
    /\ log' = IF minibatch' % LogEvery = 0 THEN log \cup {"minibatch loss"} ELSE log
    /\ trace' = Append(trace, Event("step", i))
    /\ UNCHANGED <<start_epoch, additional_epoch, optim, batches, pc, error, net_mode,
                   net_inference, inference_mode, scheduler, files, final_file, i,
                   losses, ev_yielded, ev_lossed, ev_minibatch, metrics>>

\* train(), lines 146-151: the epoch's mean loss is recorded; every 5th epoch
\* that is not the first one of the run goes on to checkpoint and evaluate
EpochEnd ==
    /\ pc = "batch"
    /\ gen = <<>>
    /\ losses' = Append(losses, NpMean(lossed_minibatch))
    /\ log' = log \cup {"epoch loss"}
    /\ IF ShouldCheckpoint(i, start_epoch)
       THEN pc' = "save" /\ i' = i
       ELSE pc' = "epoch" /\ i' = i + 1
    /\ UNCHANGED <<start_epoch, additional_epoch, optim, batches, error, net, net_mode,
                   net_inference, inference_mode, optimizer, scheduler, files,
                   final_file, gen, lossed_minibatch, minibatch, ev_yielded, ev_lossed,
                   ev_minibatch, metrics, trace>>

\* train(), line 152
SavePeriodic ==
    /\ pc = "save"
    /\ files' = SaveToCkpt(files, i, net, optimizer, scheduler)
    /\ trace' = Append(trace, Event("save", i))
    /\ pc' = "sync"
    /\ UNCHANGED <<start_epoch, additional_epoch, optim, batches, error, net, net_mode,
                   net_inference, inference_mode, optimizer, scheduler, final_file, i,
                   gen, lossed_minibatch, minibatch, losses, ev_yielded, ev_lossed,
                   ev_minibatch, metrics, log>>

\* faulty variant: the evaluation is run without the copy of the parameters
C2MutSyncInference ==
    /\ pc = "sync"
    /\ trace' = Append(trace, Event("sync", i))
    /\ pc' = "eval"
    /\ UNCHANGED <<start_epoch, additional_epoch, optim, batches, error, net, net_mode,
                   net_inference, inference_mode, optimizer, scheduler, files,
                   final_file, i, gen, lossed_minibatch, minibatch, losses, ev_yielded,
                   ev_lossed, ev_minibatch, metrics, log>>

\* train(), line 153
SyncInference ==
    /\ pc = "sync"
    /\ net_inference' = LoadStateDict(net)
    /\ trace' = Append(trace, Event("sync", i))
    /\ pc' = "eval"
    /\ UNCHANGED <<start_epoch, additional_epoch, optim, batches, error, net, net_mode,
                   inference_mode, optimizer, scheduler, files, final_file, i, gen,
                   lossed_minibatch, minibatch, losses, ev_yielded, ev_lossed,
                   ev_minibatch, metrics, log>>

\* train(), line 154 and eval_model(), lines 173-179: eval_model(net,
\* net_inference, ...) puts its first argument in eval mode
EvalBegin ==
    /\ pc = "eval"
    /\ net_mode' = "eval"
    /\ ev_lossed' = <<>>
    /\ ev_minibatch' = 0
    /\ ev_yielded' = 0
    /\ log' = log \cup {"eval phase"}
    /\ trace' = Append(trace, Event("eval", i))
    /\ pc' = "eval_batch"
    /\ UNCHANGED <<start_epoch, additional_epoch, optim, batches, error, net,
                   net_inference, inference_mode, optimizer, scheduler, files,
                   final_file, i, gen, lossed_minibatch, minibatch, losses, metrics>>

\* eval_model(), lines 180-182: the validation generator yields a batch that
\* is skipped
EvalSkipBatch ==
    /\ pc = "eval_batch"
    /\ ev_yielded < MaxBatches
    /\ \E b \in BatchKinds : SkipBatch(b)
    /\ ev_yielded' = ev_yielded + 1
    /\ UNCHANGED <<start_epoch, additional_epoch, optim, batches, pc, error, net,
                   net_mode, net_inference, inference_mode, optimizer, scheduler, files,
                   final_file, i, gen, lossed_minibatch, minibatch, losses, ev_lossed,
                   ev_minibatch, metrics, log, trace>>

\* faulty variant: the sanity loss is computed by the inference model object
C4MutEvalBatch ==
    /\ pc = "eval_batch"
    /\ ev_yielded < MaxBatches
    /\ \E b \in BatchKinds :
          /\ ~SkipBatch(b)
          /\ ev_lossed' = Append(ev_lossed, PairLoss("net_inference", net_inference, b))
    /\ ev_yielded' = ev_yielded + 1
    /\ ev_minibatch' = ev_minibatch + 1
    /\ log' = IF ev_minibatch' % LogEvery = 0 THEN log \cup {"eval minibatch loss"}
              ELSE log
    /\ UNCHANGED <<start_epoch, additional_epoch, optim, batches, pc, error, net,
                   net_mode, net_inference, inference_mode, optimizer, scheduler, files,
                   final_file, i, gen, lossed_minibatch, minibatch, losses, metrics,
                   trace>>

\* eval_model(), lines 183-194: y_pred = model(x_i, x_j) with model the first
\* argument, which train() binds to net
EvalBatch ==
    /\ pc = "eval_batch"
    /\ ev_yielded < MaxBatches
    /\ \E b \in BatchKinds :
          /\ ~SkipBatch(b)
          /\ ev_lossed' = Append(ev_lossed, PairLoss("net", net, b))
    /\ ev_yielded' = ev_yielded + 1
    /\ ev_minibatch' = ev_minibatch + 1
    /\ log' = IF ev_minibatch' % LogEvery = 0 THEN log \cup {"eval minibatch loss"}
              ELSE log
    /\ UNCHANGED <<start_epoch, additional_epoch, optim, batches, pc, error, net,
                   net_mode, net_inference, inference_mode, optimizer, scheduler, files,
                   final_file, i, gen, lossed_minibatch, minibatch, losses, metrics,
                   trace>>

\* eval_model(), lines 196-199: the generator is exhausted; the mean is
\* printed and both metrics are computed with inference_model, which train()
\* binds to net_inference; the function returns and the loop goes on
EvalEnd ==
    /\ pc = "eval_batch"
    /\ log' = log \cup {"eval loss"}
    /\ metrics' = Append(metrics,
                         [epoch |-> i,
                          cross_entropy |-> [by |-> "net_inference", params |-> net_inference],
                          ndcg |-> [by |-> "net_inference", params |-> net_inference]])
    /\ ev_lossed' = <<>>
    /\ ev_minibatch' = 0
    /\ ev_yielded' = 0
    /\ i' = i + 1
    /\ pc' = "epoch"
    /\ UNCHANGED <<start_epoch, additional_epoch, optim, batches, error, net, net_mode,
                   net_inference, inference_mode, optimizer, scheduler, files,
                   final_file, gen, lossed_minibatch, minibatch, losses, trace>>

\* train(), line 157: the last checkpoint, keyed start_epoch + additional_epoch
SaveLast ==
    /\ pc = "epoch"
    /\ ~InRange(i)
    /\ files' = SaveToCkpt(files, start_epoch + additional_epoch, net, optimizer,
                           scheduler)
    /\ trace' = Append(trace, Event("save_last", start_epoch + additional_epoch))
    /\ pc' = "final"
    /\ UNCHANGED <<start_epoch, additional_epoch, optim, batches, error, net, net_mode,
                   net_inference, inference_mode, optimizer, scheduler, final_file, i,
                   gen, lossed_minibatch, minibatch, losses, ev_yielded, ev_lossed,
                   ev_minibatch, metrics, log>>

\* train(), line 160: torch.save(net.state_dict(), ckptfile)
SaveFinal ==
    /\ pc = "final"
    /\ final_file' = <<net>>
    /\ trace' = Append(trace, Event("final", start_epoch + additional_epoch))
    /\ pc' = "done"
    /\ UNCHANGED <<start_epoch, additional_epoch, optim, batches, error, net, net_mode,
                   net_inference, inference_mode, optimizer, scheduler, files, i, gen,
                   lossed_minibatch, minibatch, losses, ev_yielded, ev_lossed,
                   ev_minibatch, metrics, log>>

Next ==
    \/ Construct
    \/ MakeOptimizer
    \/ RaiseUnsupportedOptimizer
    \/ NoResume
    \/ ResumeLoad
    \/ ResumeMissing
    \/ EpochBegin
    \/ SkipEmptyBatch
    \/ TrainBatch
    \/ EpochEnd
    \/ SavePeriodic
    \/ SyncInference
    \/ EvalBegin
    \/ EvalSkipBatch
    \/ EvalBatch
    \/ EvalEnd
    \/ SaveLast
    \/ SaveFinal

Spec == Init /\ [][Next]_vars

\* train() is one sequential thread: whenever a step is possible it is taken.
FairSpec == Spec /\ WF_vars(Next)

\* ------------------------------------------------- reading the history
IsEpoch(e) == e.ev = "epoch"
IsStep(e) == e.ev = "step"
IsOther(e) == e.ev # "step"

Nums(s) == [k \in 1..Len(s) |-> s[k].n]

\* the epoch indexes whose loop body has been entered, in order
EpochsRun == Nums(SelectSeq(trace, IsEpoch))

\* the epochs train(start_epoch, additional_epoch) has to process
ExpectedEpochs == [k \in 1..additional_epoch |-> start_epoch + k - 1]

Supported == optim \in {"adam", "sgd"}

Positions(kinds) == {k \in DOMAIN trace : trace[k].ev \in kinds}

Min(S) == CHOOSE x \in S : \A y \in S : x <= y
Max(S) == CHOOSE x \in S : \A y \in S : x >= y

\* the events of the epoch entered at position k: up to the next epoch or the
\* last checkpoint
Boundary(k) ==
    Min({j \in Positions({"epoch", "save_last"}) : j > k} \cup {Len(trace) + 1})
Segment(k) == SubSeq(trace, k + 1, Boundary(k) - 1)
Complete(k) == Boundary(k) <= Len(trace) \/ pc = "epoch"

IsPrefix(s, t) == Len(s) <= Len(t) /\ s = SubSeq(t, 1, Len(s))

\* ------------------------------------------------------------------- C1
C1Periodic(e) ==
    IF e % 5 = 0 /\ e # start_epoch
    THEN <<Event("save", e), Event("sync", e), Event("eval", e)>>
    ELSE <<>>

\* C1: an epoch e of the run ends with a periodic checkpoint keyed e iff e is
\* a multiple of 5 and e is not start_epoch; when it does, the order is
\* checkpoint, sync of the inference model, evaluation, all after the epoch's
\* optimizer steps and before the next epoch; the checkpoint holds the
\* training model's parameters of that moment.
C1PeriodicCheckpoint ==
    /\ \A k \in Positions({"epoch"}) :
          LET seg == Segment(k)
              steps == SelectSeq(seg, IsStep)
              rest == SelectSeq(seg, IsOther)
          IN  /\ seg = steps \o rest
              /\ IsPrefix(rest, C1Periodic(trace[k].n))
              /\ Complete(k) => rest = C1Periodic(trace[k].n)
    /\ pc \in {"sync", "eval", "eval_batch"} =>
          /\ i \in DOMAIN files
          /\ files[i].epoch = i
          /\ files[i].model_state_dict = net

C1Witness ==
    /\ pc = "done"
    /\ start_epoch = 5
    /\ Positions({"step"}) # {}
    /\ \E k \in DOMAIN trace : trace[k] = Event("eval", 10)

\* ------------------------------------------------------------------- C2
\* C2: whenever eval_model is about to run or running, the inference model's
\* parameters equal the training model's current parameters.
C2EvalAfterRefresh ==
    pc \in {"eval", "eval_batch"} => net_inference = net

C2Witness ==
    /\ pc = "eval_batch"
    /\ ev_lossed # <<>>
    /\ net.steps # <<>>

\* ------------------------------------------------------------------- C3
\* C3: after a resume from an existing checkpoint and before the first epoch,
\* model parameters, optimizer state and scheduler state all equal the ones
\* stored in the checkpoint.
C3FullStateRestored ==
    (pc = "epoch" /\ Positions({"load"}) # {} /\ Positions({"epoch", "save_last"}) = {}) =>
        /\ net = files[start_epoch].model_state_dict
        /\ optimizer = files[start_epoch].optimizer_state_dict
        /\ scheduler = files[start_epoch].scheduler_state_dict

\* ------------------------------------------------------------------- C4
\* C4 (as claimed): every sanity loss of eval_model is computed by the
\* inference model object.
C4SanityLossByInference ==
    pc = "eval_batch" => \A k \in DOMAIN ev_lossed : ev_lossed[k].by = "net_inference"

\* C4 (amended): every sanity loss of eval_model is computed by the training
\* model object, in eval mode, with parameters equal to the inference model's
\* just-synced ones; the two metrics are computed by the inference model.
C4SanityLossByTrainingModel ==
    /\ pc = "eval_batch" =>
          /\ net_mode = "eval"
          /\ \A k \in DOMAIN ev_lossed :
                /\ ev_lossed[k].by = "net"
                /\ ev_lossed[k].params = net_inference
    /\ \A k \in DOMAIN metrics :
          /\ metrics[k].cross_entropy.by = "net_inference"
          /\ metrics[k].ndcg.by = "net_inference"

C4Witness ==
    /\ pc = "eval_batch"
    /\ Len(ev_lossed) = 2
    /\ net.steps # <<>>
    /\ net_inference.steps # <<>>

\* ------------------------------------------------------------------- C5
C5ZeroRow(b) == ~b.present \/ b.x_i = 0 \/ b.x_j = 0
C5NonEmpty(b) == ~C5ZeroRow(b)

C5Accumulated(yielded) ==
    LET kept == SelectSeq(yielded, C5NonEmpty)
        last == Max(Positions({"epoch"}))
    IN  /\ Len(lossed_minibatch) = Len(kept)
        /\ minibatch = Len(kept)
        /\ Len(SelectSeq(Segment(last), IsStep)) = Len(kept)
        /\ \A k \in DOMAIN lossed_minibatch :
              /\ lossed_minibatch[k].rows = kept[k].x_i
              /\ Len(lossed_minibatch[k].params.steps)
                    = Len(lossed_minibatch[1].params.steps) + k - 1
        /\ lossed_minibatch # <<>> =>
              Len(net.steps) = Len(lossed_minibatch[1].params.steps) + Len(kept)

\* C5: a yielded batch that is absent or has zero rows on either side causes
\* no forward pass, no optimizer step and no loss entry: the accumulator, the
\* batch counter and the optimizer steps of the epoch are those of the
\* non-empty batches alone, and the recorded mean is the mean over them.
C5EmptyBatchSkipped ==
    /\ pc = "batch" =>
          C5Accumulated(SubSeq(batches, 1, Len(batches) - Len(gen)))
    /\ (pc \in {"epoch", "save", "sync", "eval", "eval_batch", "final", "done"}
        /\ losses # <<>>) =>
          /\ C5Accumulated(batches)
          /\ losses[Len(losses)] = NpMean(lossed_minibatch)

C5Witness ==
    /\ pc = "epoch"
    /\ losses # <<>>
    /\ lossed_minibatch # <<>>
    /\ batches[1].present /\ C5ZeroRow(batches[1])
    /\ C5NonEmpty(batches[2])
    /\ Len(net.steps) > 1

\* ------------------------------------------------------------------- C6
C6MissingLogged == "ckpt file does not exist" \in log

C6Terminated ==
    /\ pc = "done"
    /\ error = "none"
    /\ EpochsRun = ExpectedEpochs
    /\ start_epoch + additional_epoch \in DOMAIN files
    /\ final_file = <<net>>

\* C6: a resume whose checkpoint file is missing raises nothing: the step only
\* prints the message and leaves the freshly initialised model as it is; the
\* run then processes every epoch start_epoch .. start_epoch +
\* additional_epoch - 1 and ends with the last checkpoint and the final
\* snapshot written.
C6MissingResumeNonFatal ==
    /\ [][(pc = "resume" /\ start_epoch # 0 /\ start_epoch \notin DOMAIN files) =>
             /\ pc' = "epoch"
             /\ error' = "none"
             /\ net' = FreshParams("net_init")
             /\ C6MissingLogged'
             /\ UNCHANGED <<net, net_inference, optimizer, scheduler, files,
                            final_file, trace>>]_vars
    /\ [](C6MissingLogged =>
             /\ error = "none"
             /\ pc # "raised"
             /\ net.origin = "net_init"
             /\ Positions({"load"}) = {}
             /\ IsPrefix(EpochsRun, ExpectedEpochs))
    /\ (C6MissingLogged ~> C6Terminated)

C6Witness ==
    /\ C6MissingLogged
    /\ C6Terminated
    /\ net.steps # <<>>
    /\ Positions({"eval"}) # {}

\* ------------------------------------------------------------------- C7
\* C7: with an optimizer name other than "adam" and "sgd" the only step after
\* construction raises ValueError, and nothing of training ever happens: no
\* checkpoint is loaded, no epoch is entered, no optimizer step is applied
\* and no file is written.
C7UnsupportedOptimizerFatal ==
    /\ [][~Supported =>
             /\ UNCHANGED <<files, final_file>>
             /\ pc = "optimizer" => (pc' = "raised" /\ error' = "ValueError")]_vars
    /\ [](~Supported =>
             /\ pc \in {"construct", "optimizer", "raised"}
             /\ pc = "raised" <=> error = "ValueError"
             /\ trace = <<>>
             /\ net.steps = <<>>
             /\ net.origin # "prior_init"
             /\ optimizer.nsteps = 0
             /\ scheduler.last_epoch <= 0
             /\ losses = <<>>
             /\ final_file = <<>>
             /\ log \subseteq {"start"})

C7Witness ==
    /\ pc = "raised"
    /\ error = "ValueError"
    /\ additional_epoch > 0
    /\ start_epoch \in DOMAIN files

\* ------------------------------------------------------------------- C8
C8Snapshot ==
    IF Positions({"sync"}) = {}
    THEN IF pc = "construct" THEN FreshParams("unbuilt")
         ELSE FreshParams("inference_init")
    ELSE files[trace[Max(Positions({"sync"}))].n].model_state_dict

\* C8: once built, the inference model's parameters change only in the sync
\* step; at any time they are the initial ones if no sync has happened, and
\* otherwise the training parameters checkpointed at the latest sync, whatever
\* the training model has become since.
C8InferenceOnlySynced ==
    /\ [][(pc # "construct" /\ net_inference' # net_inference) =>
             (pc = "sync" /\ pc' = "eval")]_vars
    /\ [](net_inference = C8Snapshot)

C8Witness ==
    /\ Positions({"sync"}) # {}
    /\ pc = "batch"
    /\ Len(net.steps) > Len(net_inference.steps)
    /\ net_inference.steps # <<>>

\* ------------------------------------------------------------------- C9
C9Finished ==
    /\ EpochsRun = ExpectedEpochs
    /\ Cardinality(Positions({"save_last"})) = 1
    /\ Len(trace) >= 2
    /\ trace[Len(trace) - 1] = Event("save_last", start_epoch + additional_epoch)
    /\ trace[Len(trace)] = Event("final", start_epoch + additional_epoch)
    /\ start_epoch + additional_epoch \in DOMAIN files
    /\ files[start_epoch + additional_epoch].epoch = start_epoch + additional_epoch
    /\ final_file = <<files[start_epoch + additional_epoch].model_state_dict>>
    /\ final_file = <<net>>

\* C9: with a supported optimizer train() terminates; by then it has entered
\* exactly the epochs start_epoch .. start_epoch + additional_epoch - 1, once
\* each and in increasing order, and its last two steps are the one last
\* checkpoint, keyed start_epoch + additional_epoch, and the final snapshot,
\* which holds the same parameters as that checkpoint.
C9TrainTerminates ==
    /\ [](pc = "done" => C9Finished)
    /\ [](Positions({"save_last"}) # {} => EpochsRun = ExpectedEpochs)
    /\ [](IsPrefix(EpochsRun, ExpectedEpochs))
    /\ ((Supported /\ pc = "construct") ~> pc = "done")

C9Witness ==
    /\ pc = "done"
    /\ Len(EpochsRun) >= 6
    /\ start_epoch > 0
    /\ net.steps # <<>>

\* ------------------------------------------------------------------ C10
\* C10: in a run started at epoch 0, a checkpoint written under key E holds
\* the model after exactly the epochs 0 .. E-1: every epoch entered before the
\* save, and every optimizer step in the saved parameters, has an index below
\* E, and E epochs have been entered.
C10KeyMatchesEpochsTrained ==
    start_epoch = 0 =>
        \A k \in Positions({"save", "save_last"}) :
            LET E == trace[k].n
                before == Nums(SelectSeq(SubSeq(trace, 1, k - 1), IsEpoch))
            IN  /\ before = Range(E)
                /\ E \in DOMAIN files
                /\ \A j \in DOMAIN files[E].model_state_dict.steps :
                      files[E].model_state_dict.steps[j] < E

====
